---- MODULE Spec2Model ----
(***************************************************************************)
(* Model of RoomService (src/src/room/room.service.ts): the Room and       *)
(* RoomType tables behind the persistence gateway and the service's ten    *)
(* request handlers.  Every handler is an async function; each awaited     *)
(* gateway call is one atomic step, so handlers of concurrent requests     *)
(* interleave between their awaits.  A handler suspended at an await is a  *)
(* record (its position and its locals) in the bag inflight.  Logging and  *)
(* validation are local and belong to the handler's first step.            *)
(* Timestamps are assigned by the gateway and play no part in the          *)
(* handlers' control flow; they are not represented.                       *)
(***************************************************************************)
EXTENDS Integers, FiniteSets, Bags

\* ------------------------------------------------------------------ bounds

\* The number of rows each table can grow to.
MaxRooms == 1
MaxRoomTypes == 1

\* The callers; each has at most one request outstanding.
Callers == {"a", "b"}
Statuses == {"available", "occupied"}
Prices == {100, 200}
RoomTypeNames == {"Deluxe"}

\* Identifiers the gateway can assign.
RoomIds == 1..MaxRooms
RoomTypeIds == 1..MaxRoomTypes

\* Identifiers a caller can name: an assigned one, one not assigned yet and,
\* for a RoomType, one that is never assigned (0).
RequestRoomIds == RoomIds
RequestRoomTypeIds == {0} \cup RoomTypeIds

\* Request payloads after validation.
RoomRequests == [id_roomtype : RequestRoomTypeIds, status : Statuses]
RoomTypeRequests == [room_type : RoomTypeNames, price : Prices]

VARIABLES rooms, roomTypes, inflight, response

vars == <<rooms, roomTypes, inflight, response>>

Null == [null |-> TRUE]
NoResponse == [op |-> "none", status |-> 0, message |-> "", body |-> Null]

\* ------------------------------------------------------- persistence gateway

\* A unique-key lookup: the row whose key is id, or null.
RoomById(id) ==
    IF \E r \in rooms : r.id_room = id
    THEN CHOOSE r \in rooms : r.id_room = id
    ELSE Null

RoomTypeById(id) ==
    IF \E t \in roomTypes : t.id_roomtype = id
    THEN CHOOSE t \in roomTypes : t.id_roomtype = id
    ELSE Null

\* findUnique with where: {id, deleted: false}.
ActiveRoomById(id) ==
    IF \E r \in rooms : r.id_room = id /\ r.deleted = FALSE
    THEN CHOOSE r \in rooms : r.id_room = id /\ r.deleted = FALSE
    ELSE Null

ActiveRoomTypeById(id) ==
    IF \E t \in roomTypes : t.id_roomtype = id /\ t.deleted = FALSE
    THEN CHOOSE t \in roomTypes : t.id_roomtype = id /\ t.deleted = FALSE
    ELSE Null

\* Identifiers are generated by the gateway: the first one not in use.
NewRoomId == CHOOSE i \in RoomIds :
    /\ \A r \in rooms : r.id_room # i
    /\ \A j \in RoomIds : (\A r \in rooms : r.id_room # j) => i <= j

NewRoomTypeId == CHOOSE i \in RoomTypeIds :
    /\ \A t \in roomTypes : t.id_roomtype # i
    /\ \A j \in RoomTypeIds : (\A t \in roomTypes : t.id_roomtype # j) => i <= j

\* ------------------------------------------------------------ response shapes

HttpException(op, message, status) ==
    [op |-> op, status |-> status, message |-> message, body |-> Null]

Ok(op, body) == [op |-> op, status |-> 200, message |-> "", body |-> body]

\* RoomCreateResponse: the flat view of a Room row.
RoomView(r) ==
    [id_room |-> r.id_room, id_roomtype |-> r.id_roomtype, status |-> r.status]

\* RoomDetailResponse: the Room with its joined RoomType, trimmed.
RoomDetailView(r) ==
    [id_room |-> r.id_room, id_roomtype |-> r.id_roomtype, status |-> r.status,
     roomtype |-> [id_roomtype |-> RoomTypeById(r.id_roomtype).id_roomtype,
                   price |-> RoomTypeById(r.id_roomtype).price]]

RoomTypeView(t) ==
    [id_roomtype |-> t.id_roomtype, room_type |-> t.room_type, price |-> t.price]

DeleteResponse == [message |-> "Deleted successfully"]

\* -------------------------------------------------------------------- state

Init ==
    /\ rooms = {}
    /\ roomTypes = {}
    /\ inflight = EmptyBag
    /\ response = NoResponse

\* A caller is free to send a request.
CallerFree == BagCardinality(inflight) < Cardinality(Callers)

\* A handler that answers in its first step.
Reply(r) ==
    /\ inflight' = inflight
    /\ response' = r

\* A handler reaches its second await: it is suspended as h.
Suspend(h) ==
    /\ inflight' = inflight (+) SetToBag({h})
    /\ response' = NoResponse

\* The suspended handler h moves on to its next await as h2.
Resume(h, h2) ==
    /\ inflight' = (inflight (-) SetToBag({h})) (+) SetToBag({h2})
    /\ response' = NoResponse

\* The suspended handler h returns or throws.
Finish(h, r) ==
    /\ inflight' = inflight (-) SetToBag({h})
    /\ response' = r

Suspended(label) == {h \in BagToSet(inflight) : h.pc = label}

\* Rows still to be inserted by handlers that passed their checks.
PendingCreates ==
    BagCardinality([h \in Suspended("create_write") |-> inflight[h]])

\* --------------------------------------------------------------------- Room

\* Variant: the lookup ignores the requested key and takes any row.
CreateLookupRoomType_AnyRow(req) ==
    IF roomTypes # {} THEN CHOOSE t \in roomTypes : TRUE ELSE Null

\* create, lines 33-36: the referenced RoomType, looked up by key alone.
CreateLookupRoomType(req) == RoomTypeById(req.id_roomtype)

\* create, lines 41-46: the table after the insert; a new row is not deleted.
InsertRoom(req) ==
    rooms \cup {[id_room |-> NewRoomId, id_roomtype |-> req.id_roomtype,
                 status |-> req.status, deleted |-> FALSE]}

\* create up to its second await: validate, look the RoomType up, 404 if null.
Create(req) ==
    /\ CallerFree
    /\ IF CreateLookupRoomType(req) = Null
       THEN Reply(HttpException("create", "Room Type does not exist", 404))
       ELSE /\ Cardinality(rooms) + PendingCreates < MaxRooms
            /\ Suspend([pc |-> "create_write", req |-> req])
    /\ UNCHANGED <<rooms, roomTypes>>

CreateWrite(h) ==
    /\ h.pc = "create_write"
    /\ rooms' = InsertRoom(h.req)
    /\ Finish(h, Ok("create", RoomView(CHOOSE r \in rooms' : r \notin rooms)))
    /\ UNCHANGED roomTypes

\* Variant: the query without its deleted filter.
FindManyRooms_All == rooms

\* findAll, lines 59-62: the rows the query selects.
FindManyRooms == {r \in rooms : r.deleted = FALSE}

\* The include of roomType: dereferencing a missing join is a TypeError,
\* which reaches the framework's generic handler.
JoinMissing(rs) == \E r \in rs : RoomTypeById(r.id_roomtype) = Null

FindAll ==
    /\ CallerFree
    /\ IF JoinMissing(FindManyRooms)
       THEN Reply(HttpException("findAll", "Internal server error", 500))
       ELSE Reply(Ok("findAll", {RoomDetailView(r) : r \in FindManyRooms}))
    /\ UNCHANGED <<rooms, roomTypes>>

\* Variant: the lookup also requires the joined RoomType to be non-deleted.
FindOneLookup_ActiveType(id) ==
    IF ActiveRoomById(id) # Null
       /\ ActiveRoomTypeById(ActiveRoomById(id).id_roomtype) # Null
    THEN ActiveRoomById(id)
    ELSE Null

\* findOne, lines 80-83.
FindOneLookup(id) == ActiveRoomById(id)

FindOne(id) ==
    /\ CallerFree
    /\ IF FindOneLookup(id) = Null
       THEN Reply(HttpException("findOne", "Room not found", 404))
       ELSE IF JoinMissing({FindOneLookup(id)})
       THEN Reply(HttpException("findOne", "Internal server error", 500))
       ELSE Reply(Ok("findOne", RoomDetailView(FindOneLookup(id))))
    /\ UNCHANGED <<rooms, roomTypes>>

\* Variant: the lookup ignores the requested key and takes any row.
UpdateLookupRoomType_AnyRow(req) ==
    IF roomTypes # {} THEN CHOOSE t \in roomTypes : TRUE ELSE Null

\* update, lines 112-115.
UpdateLookupRoomType(req) == RoomTypeById(req.id_roomtype)

\* update, lines 120-123.
UpdateLookupRoom(id) == ActiveRoomById(id)

\* Variant: the write stores a fresh row in place of the old one.
UpdateRoomRows_Replace(id, req) ==
    {IF r.id_room = id
     THEN [id_room |-> id, id_roomtype |-> req.id_roomtype,
           status |-> req.status, deleted |-> FALSE]
     ELSE r : r \in rooms}

\* Variant: the write is keyed by id_room and deleted = false.
UpdateRoomRows_ActiveOnly(id, req) ==
    {IF r.id_room = id /\ r.deleted = FALSE
     THEN [r EXCEPT !.id_roomtype = req.id_roomtype, !.status = req.status]
     ELSE r : r \in rooms}

\* update, lines 128-131: the write is keyed by id_room alone and replaces
\* the request's fields.
UpdateRoomRows(id, req) ==
    {IF r.id_room = id
     THEN [r EXCEPT !.id_roomtype = req.id_roomtype, !.status = req.status]
     ELSE r : r \in rooms}

\* Variant: the Room is looked up before the RoomType.
Update_RoomFirst(id, req) ==
    /\ CallerFree
    /\ IF ActiveRoomById(id) = Null
       THEN Reply(HttpException("update", "Room not found", 404))
       ELSE IF RoomTypeById(req.id_roomtype) = Null
       THEN Reply(HttpException("update", "Room Type does not exist", 404))
       ELSE Suspend([pc |-> "update_findRoom", id |-> id, req |-> req])
    /\ UNCHANGED <<rooms, roomTypes>>

\* update up to its second await: validate, look the RoomType up, 404 if null.
Update(id, req) ==
    /\ CallerFree
    /\ IF UpdateLookupRoomType(req) = Null
       THEN Reply(HttpException("update", "Room Type does not exist", 404))
       ELSE Suspend([pc |-> "update_findRoom", id |-> id, req |-> req])
    /\ UNCHANGED <<rooms, roomTypes>>

UpdateFindRoom(h) ==
    /\ h.pc = "update_findRoom"
    /\ IF UpdateLookupRoom(h.id) = Null
       THEN Finish(h, HttpException("update", "Room not found", 404))
       ELSE Resume(h, [pc |-> "update_write", id |-> h.id, req |-> h.req])
    /\ UNCHANGED <<rooms, roomTypes>>

\* An update whose key matches no row is rejected by the gateway.
UpdateWrite(h) ==
    /\ h.pc = "update_write"
    /\ IF RoomById(h.id) = Null
       THEN /\ Finish(h, HttpException("update", "Internal server error", 500))
            /\ UNCHANGED rooms
       ELSE /\ rooms' = UpdateRoomRows(h.id, h.req)
            /\ Finish(h, Ok("update", RoomView(CHOOSE r \in rooms' : r.id_room = h.id)))
    /\ UNCHANGED roomTypes

\* Variant: the lookup without its deleted filter.
DeleteLookupRoom_Unfiltered(id) == RoomById(id)

\* delete, lines 146-148.
DeleteLookupRoom(id) == ActiveRoomById(id)

\* Variant: the row is removed instead of marked.
SoftDeleteRoom_Hard(id) == {r \in rooms : r.id_room # id}

\* delete, lines 153-156.
SoftDeleteRoom(id) ==
    {IF r.id_room = id THEN [r EXCEPT !.deleted = TRUE] ELSE r : r \in rooms}

Delete(id) ==
    /\ CallerFree
    /\ IF DeleteLookupRoom(id) = Null
       THEN Reply(HttpException("delete", "Room not found", 404))
       ELSE Suspend([pc |-> "delete_write", id |-> id])
    /\ UNCHANGED <<rooms, roomTypes>>

DeleteWrite(h) ==
    /\ h.pc = "delete_write"
    /\ IF RoomById(h.id) = Null
       THEN /\ Finish(h, HttpException("delete", "Internal server error", 500))
            /\ UNCHANGED rooms
       ELSE /\ rooms' = SoftDeleteRoom(h.id)
            /\ Finish(h, Ok("delete", DeleteResponse))
    /\ UNCHANGED roomTypes

\* ----------------------------------------------------------------- RoomType

\* createRoomType, lines 172-174.
InsertRoomType(req) ==
    roomTypes \cup {[id_roomtype |-> NewRoomTypeId, room_type |-> req.room_type,
                     price |-> req.price, deleted |-> FALSE]}

CreateRoomType(req) ==
    /\ CallerFree
    /\ Cardinality(roomTypes) < MaxRoomTypes
    /\ roomTypes' = InsertRoomType(req)
    /\ Reply(Ok("createRoomType",
           RoomTypeView(CHOOSE t \in roomTypes' : t \notin roomTypes)))
    /\ UNCHANGED rooms

\* findAllRoomType, lines 187-189.
FindManyRoomTypes == {t \in roomTypes : t.deleted = FALSE}

FindAllRoomType ==
    /\ CallerFree
    /\ Reply(Ok("findAllRoomType", {RoomTypeView(t) : t \in FindManyRoomTypes}))
    /\ UNCHANGED <<rooms, roomTypes>>

\* findOneRoomType, lines 201-203.
FindOneRoomTypeLookup(id) == ActiveRoomTypeById(id)

FindOneRoomType(id) ==
    /\ CallerFree
    /\ IF FindOneRoomTypeLookup(id) = Null
       THEN Reply(HttpException("findOneRoomType", "Room Type not found", 404))
       ELSE Reply(Ok("findOneRoomType", RoomTypeView(FindOneRoomTypeLookup(id))))
    /\ UNCHANGED <<rooms, roomTypes>>

\* updateRoomType, lines 226-228: the count of non-deleted rows with the id.
CountActiveRoomTypes(id) ==
    Cardinality({t \in roomTypes : t.id_roomtype = id /\ t.deleted = FALSE})

\* updateRoomType, lines 233-236.
UpdateRoomTypeRows(id, req) ==
    {IF t.id_roomtype = id
     THEN [t EXCEPT !.room_type = req.room_type, !.price = req.price]
     ELSE t : t \in roomTypes}

UpdateRoomType(id, req) ==
    /\ CallerFree
    /\ IF CountActiveRoomTypes(id) = 0
       THEN Reply(HttpException("updateRoomType", "Room Type not found", 404))
       ELSE Suspend([pc |-> "updateRoomType_write", id |-> id, req |-> req])
    /\ UNCHANGED <<rooms, roomTypes>>

UpdateRoomTypeWrite(h) ==
    /\ h.pc = "updateRoomType_write"
    /\ IF RoomTypeById(h.id) = Null
       THEN /\ Finish(h, HttpException("updateRoomType", "Internal server error", 500))
            /\ UNCHANGED roomTypes
       ELSE /\ roomTypes' = UpdateRoomTypeRows(h.id, h.req)
            /\ Finish(h, Ok("updateRoomType",
                   RoomTypeView(CHOOSE t \in roomTypes' : t.id_roomtype = h.id)))
    /\ UNCHANGED rooms

\* deleteRoomType, lines 251-253.
DeleteLookupRoomType(id) == ActiveRoomTypeById(id)

\* deleteRoomType, lines 258-261.
SoftDeleteRoomType(id) ==
    {IF t.id_roomtype = id THEN [t EXCEPT !.deleted = TRUE] ELSE t : t \in roomTypes}

DeleteRoomType(id) ==
    /\ CallerFree
    /\ IF DeleteLookupRoomType(id) = Null
       THEN Reply(HttpException("deleteRoomType", "Room Type not found", 404))
       ELSE Suspend([pc |-> "deleteRoomType_write", id |-> id])
    /\ UNCHANGED <<rooms, roomTypes>>

DeleteRoomTypeWrite(h) ==
    /\ h.pc = "deleteRoomType_write"
    /\ IF RoomTypeById(h.id) = Null
       THEN /\ Finish(h, HttpException("deleteRoomType", "Internal server error", 500))
            /\ UNCHANGED roomTypes
       ELSE /\ roomTypes' = SoftDeleteRoomType(h.id)
            /\ Finish(h, Ok("deleteRoomType", DeleteResponse))
    /\ UNCHANGED rooms

\* ------------------------------------------------------------ specification

Next ==
    \/ \E req \in RoomRequests : Create(req)
    \/ FindAll
    \/ \E id \in RequestRoomIds : FindOne(id)
    \/ \E id \in RequestRoomIds, req \in RoomRequests : Update(id, req)
    \/ \E id \in RequestRoomIds : Delete(id)
    \/ \E req \in RoomTypeRequests : CreateRoomType(req)
    \/ FindAllRoomType
    \/ \E id \in RequestRoomTypeIds : FindOneRoomType(id)
    \/ \E id \in RequestRoomTypeIds, req \in RoomTypeRequests : UpdateRoomType(id, req)
    \/ \E id \in RequestRoomTypeIds : DeleteRoomType(id)
    \/ \E h \in BagToSet(inflight) : CreateWrite(h)
    \/ \E h \in BagToSet(inflight) : UpdateFindRoom(h)
    \/ \E h \in BagToSet(inflight) : UpdateWrite(h)
    \/ \E h \in BagToSet(inflight) : DeleteWrite(h)
    \/ \E h \in BagToSet(inflight) : UpdateRoomTypeWrite(h)
    \/ \E h \in BagToSet(inflight) : DeleteRoomTypeWrite(h)

Spec == Init /\ [][Next]_vars

\* ------------------------------------------------------------------ claims

\* An id that names no row, or a row marked deleted.
RoomMissing(id) == \A r \in rooms : r.id_room = id => r.deleted
RoomTypeMissing(id) == \A t \in roomTypes : t.id_roomtype = id => t.deleted

TablesUnchanged == rooms' = rooms /\ roomTypes' = roomTypes

NotFound(r) == r.status = 404 /\ r.body = Null

\* The step answers for handler op, or suspends a handler at label: what a
\* first step of op does.
FirstStep(op, label) ==
    \/ response'.op = op
    \/ /\ response'.op = "none"
       /\ \E h \in BagToSet(inflight') :
             h.pc = label /\ CopiesIn(h, inflight') > CopiesIn(h, inflight)

\* C1: on an id that is absent or soft-deleted when the handler queries it,
\* findOne, update, delete, findOneRoomType, updateRoomType and deleteRoomType
\* answer 404 and both tables are left as they were.
C1_MissingIdIsNotFound ==
    [][/\ FirstStep("findOne", "") =>
            \A id \in RequestRoomIds :
               (RoomMissing(id) /\ FindOne(id))
                  => NotFound(response') /\ TablesUnchanged
       /\ FirstStep("delete", "delete_write") =>
            \A id \in RequestRoomIds :
               (RoomMissing(id) /\ Delete(id))
                  => NotFound(response') /\ TablesUnchanged
       /\ FirstStep("update", "update_findRoom") =>
            \A id \in RequestRoomIds, req \in RoomRequests :
               (RoomMissing(id) /\ Update(id, req)) => TablesUnchanged
       /\ \A h \in Suspended("update_findRoom") :
            (RoomMissing(h.id) /\ UpdateFindRoom(h))
               => NotFound(response') /\ TablesUnchanged
       /\ FirstStep("findOneRoomType", "") =>
            \A id \in RequestRoomTypeIds :
               (RoomTypeMissing(id) /\ FindOneRoomType(id))
                  => NotFound(response') /\ TablesUnchanged
       /\ FirstStep("deleteRoomType", "deleteRoomType_write") =>
            \A id \in RequestRoomTypeIds :
               (RoomTypeMissing(id) /\ DeleteRoomType(id))
                  => NotFound(response') /\ TablesUnchanged
       /\ FirstStep("updateRoomType", "updateRoomType_write") =>
            \A id \in RequestRoomTypeIds, req \in RoomTypeRequests :
               (RoomTypeMissing(id) /\ UpdateRoomType(id, req))
                  => NotFound(response') /\ TablesUnchanged
      ]_vars

\* A delete was answered 404 while every assignable Room id names a
\* soft-deleted row: the delete of an already deleted Room.
C1_Witness ==
    /\ response.op = "delete"
    /\ response.status = 404
    /\ Cardinality(rooms) = MaxRooms
    /\ \A r \in rooms : r.deleted

\* C2: create and update with an id_roomtype that matches no RoomType row
\* answer 404 and leave the Room table unchanged.
C2_UnknownRoomTypeRejected ==
    [][/\ FirstStep("create", "create_write") =>
            \A req \in RoomRequests :
               (RoomTypeById(req.id_roomtype) = Null /\ Create(req))
                  => NotFound(response') /\ rooms' = rooms
       /\ FirstStep("update", "update_findRoom") =>
            \A id \in RequestRoomIds, req \in RoomRequests :
               (RoomTypeById(req.id_roomtype) = Null /\ Update(id, req))
                  => NotFound(response') /\ rooms' = rooms
      ]_vars

\* An update of an existing Room was refused for its RoomType reference.
C2_Witness ==
    /\ response.op = "update"
    /\ response.message = "Room Type does not exist"
    /\ \E r \in rooms : ~r.deleted

\* C3: when a Room create or update succeeds, the RoomType named by the
\* written id_roomtype exists and is not deleted at that time.
C3_WrittenRoomTypeIsActive ==
    (response.op \in {"create", "update"} /\ response.status = 200)
        => ActiveRoomTypeById(response.body.id_roomtype) # Null

\* C4: findAll returns exactly the Room rows with deleted = false and
\* findAllRoomType exactly the RoomType rows with deleted = false.
C4_ListsExcludeDeleted ==
    /\ response.op = "findAll" =>
          /\ response.status = 200
          /\ {RoomView(b) : b \in response.body}
                = {RoomView(r) : r \in {x \in rooms : x.deleted = FALSE}}
    /\ response.op = "findAllRoomType" =>
          /\ response.status = 200
          /\ response.body
                = {RoomTypeView(t) : t \in {x \in roomTypes : x.deleted = FALSE}}

\* findAll answered with no row although the table holds a (deleted) row.
C4_Witness ==
    /\ response.op = "findAll"
    /\ response.body = {}
    /\ \E r \in rooms : r.deleted

\* C5: a row is created with deleted = false, only the write of a delete sets
\* deleted = true, and no step sets deleted back to false.
C5_SoftDeleteOneWay ==
    [][/\ \A r2 \in rooms' :
            /\ (\A r \in rooms : r.id_room # r2.id_room) => ~r2.deleted
            /\ \A r \in rooms :
                  r.id_room = r2.id_room =>
                     /\ r.deleted => r2.deleted
                     /\ (~r.deleted /\ r2.deleted) =>
                           \E h \in Suspended("delete_write") :
                              h.id = r.id_room /\ DeleteWrite(h)
       /\ \A t2 \in roomTypes' :
            /\ (\A t \in roomTypes : t.id_roomtype # t2.id_roomtype) => ~t2.deleted
            /\ \A t \in roomTypes :
                  t.id_roomtype = t2.id_roomtype =>
                     /\ t.deleted => t2.deleted
                     /\ (~t.deleted /\ t2.deleted) =>
                           \E h \in Suspended("deleteRoomType_write") :
                              h.id = t.id_roomtype /\ DeleteRoomTypeWrite(h)
      ]_vars

\* A delete has just moved the last active Room to SoftDeleted, next to a
\* RoomType that is SoftDeleted too.
C5_Witness ==
    /\ response.op = "delete"
    /\ response.status = 200
    /\ rooms # {} /\ \A r \in rooms : r.deleted
    /\ \E t \in roomTypes : t.deleted

\* C6: no step removes a row or changes its identifier: every id in a table
\* is still the id of exactly one row of it after the step.
C6_RowsKept ==
    [][/\ \A r \in rooms :
            Cardinality({r2 \in rooms' : r2.id_room = r.id_room}) = 1
       /\ \A t \in roomTypes :
            Cardinality({t2 \in roomTypes' : t2.id_roomtype = t.id_roomtype}) = 1
      ]_vars

\* A deleteRoomType succeeded and its row is still stored, as are the Rooms.
C6_Witness ==
    /\ response.op = "deleteRoomType"
    /\ response.status = 200
    /\ \E t \in roomTypes : t.deleted
    /\ rooms # {}

\* C7: on a soft-deleted RoomType findOneRoomType answers 404, findOne on a
\* non-deleted Room that references it answers the Room with its nested
\* roomtype view, and deleteRoomType changes no Room row.
C7_DeletedTypeStillJoined ==
    [][/\ \A t \in roomTypes :
            (t.deleted /\ FirstStep("findOneRoomType", "")
               /\ FindOneRoomType(t.id_roomtype)) => NotFound(response')
       /\ \A r \in rooms, t \in roomTypes :
            (~r.deleted /\ t.id_roomtype = r.id_roomtype /\ t.deleted
               /\ FirstStep("findOne", "") /\ FindOne(r.id_room)) =>
                  /\ response'.status = 200
                  /\ RoomView(response'.body) = RoomView(r)
                  /\ response'.body.roomtype
                        = [id_roomtype |-> t.id_roomtype, price |-> t.price]
       /\ (rooms' # rooms) =>
            /\ \A id \in RequestRoomTypeIds : ~DeleteRoomType(id)
            /\ \A h \in Suspended("deleteRoomType_write") : ~DeleteRoomTypeWrite(h)
      ]_vars

\* findOne answered a Room whose RoomType is soft-deleted.
C7_Witness ==
    /\ response.op = "findOne"
    /\ response.status = 200
    /\ RoomTypeById(response.body.id_roomtype).deleted

\* C8: the write of update (and of updateRoomType) does not look at the
\* deleted flag again: run on a row that a concurrent delete has marked
\* deleted since the check, it stores the request's fields in the
\* soft-deleted row and answers success.
C8_UpdateWritesDeletedRow ==
    [][/\ \A h \in Suspended("update_write") :
            (RoomById(h.id) # Null /\ RoomById(h.id).deleted /\ UpdateWrite(h)) =>
               /\ response'.status = 200
               /\ [id_room |-> h.id, id_roomtype |-> h.req.id_roomtype,
                   status |-> h.req.status, deleted |-> TRUE] \in rooms'
       /\ \A h \in Suspended("updateRoomType_write") :
            (RoomTypeById(h.id) # Null /\ RoomTypeById(h.id).deleted
               /\ UpdateRoomTypeWrite(h)) =>
               /\ response'.status = 200
               /\ [id_roomtype |-> h.id, room_type |-> h.req.room_type,
                   price |-> h.req.price, deleted |-> TRUE] \in roomTypes'
      ]_vars

\* An update answered success with the fields of a row that is soft-deleted.
C8_Witness ==
    /\ response.op = "update"
    /\ response.status = 200
    /\ \E r \in rooms : r.deleted /\ RoomView(r) = response.body

\* C9: update looks the RoomType up before the Room: with an id_roomtype that
\* matches no row it answers 404 "Room Type does not exist" for every Room id,
\* and "Room not found" is answered only by a handler whose RoomType lookup
\* succeeded and whose Room is absent or soft-deleted.
C9_RoomTypeCheckedFirst ==
    [][/\ FirstStep("update", "update_findRoom") =>
            \A id \in RequestRoomIds, req \in RoomRequests :
               (RoomTypeById(req.id_roomtype) = Null /\ Update(id, req)) =>
                  /\ response'.status = 404
                  /\ response'.message = "Room Type does not exist"
       /\ (response'.op = "update" /\ response'.message = "Room not found") =>
            \E h \in Suspended("update_findRoom") :
                /\ RoomTypeById(h.req.id_roomtype) # Null
                /\ RoomMissing(h.id)
                /\ UpdateFindRoom(h)
      ]_vars

\* update answered "Room Type does not exist" while no Room is stored.
C9_Witness ==
    /\ response.op = "update"
    /\ response.message = "Room Type does not exist"
    /\ rooms = {}
    /\ roomTypes # {}

\* C10: every Room row's id_roomtype is the id of a stored RoomType row, and
\* no findAll or findOne fails on a missing join.
C10_RoomTypeReferenceStored ==
    /\ \A r \in rooms : \E t \in roomTypes : t.id_roomtype = r.id_roomtype
    /\ response.status # 500

\* findAll dereferenced the join of a Room whose RoomType is soft-deleted.
C10_Witness ==
    /\ response.op = "findAll"
    /\ response.body # {}
    /\ \E r \in rooms : ~r.deleted /\ RoomTypeById(r.id_roomtype).deleted

====
